---- MODULE Spec2Model ----
(***************************************************************************)
(* Benchmark execution engine of geodata-benchmark:                        *)
(*   - the case executor      (suites/bbox.ts, runBenchmarkCase)           *)
(*   - the workload drivers   (suites/mixed-workload.ts, concurrent.ts)    *)
(*   - the resource sampler   (utils/docker-stats.ts)                      *)
(*   - the event loop shared by the sampler and the case executor          *)
(*   - the result store       (utils/results-db.ts)                        *)
(*   - the orchestrator       (runner.ts, main)                            *)
(* Each component has its own specification over its own variables; the    *)
(* variables of the components it does not use stay at their initial       *)
(* values.  SpecEventLoop runs the sampler and the case executor together, *)
(* SpecMain runs main with the case executor, the sampler and the store.   *)
(***************************************************************************)
EXTENDS Integers, Sequences, FiniteSets, TLC

\* ------------------------------------------------------------------ bounds

MaxWarmup == 2
MaxIter == 2
MaxDuration == 2
MaxRows == 1
MaxOps == 3
MaxConc == 2
RatioScale == 2
MaxEvents == 4
MaxPolls == 2
MaxStoreOps == 3
MaxSamples == 3

\* ------------------------------------------------------- JavaScript values

\* A value of type `string | undefined`.
Undefined == [defined |-> FALSE, value |-> ""]
Str(s) == [defined |-> TRUE, value |-> s]

\* JavaScript truthiness of a `string | undefined`: undefined and "" are falsy.
Truthy(v) == v.defined /\ v.value # ""

\* Values an operation can fail with.  hasMessage: `err?.message` is neither
\* null nor undefined; message: its value; str: String(err).
ThrownValues ==
    { [kind |-> "Error",     hasMessage |-> TRUE,  message |-> "boom", str |-> "Error: boom"],
      [kind |-> "Error",     hasMessage |-> TRUE,  message |-> "",     str |-> "Error"],
      [kind |-> "string",    hasMessage |-> FALSE, message |-> "",     str |-> "timeout"],
      [kind |-> "string",    hasMessage |-> FALSE, message |-> "",     str |-> ""],
      [kind |-> "undefined", hasMessage |-> FALSE, message |-> "",     str |-> "undefined"] }

\* err?.message ?? String(err)
ErrorMessage(err) == Str(IF err.hasMessage THEN err.message ELSE err.str)

\* ---------------------------------------------------------------- variables

VARIABLES
    \* runBenchmarkCase
    ctx,                \* the ctx argument: "null" or "context"
    warmupIterations,   \* opts.warmupIterations
    iterations,         \* opts.iterations
    pc,                 \* "warmup" | "timed" | "done"
    i,                  \* loop index of the running loop
    awaiting,           \* an invocation of benchCase.fn is pending
    now,                \* performance.now()
    start,              \* start instant of the running timed iteration
    results,            \* results array
    returned,           \* the resolved value of runBenchmarkCase
    invoked,            \* history: invocations of benchCase.fn, <<phase, index>>
    outcomes,           \* history: "ok" | "fail" of each settled timed invocation
    warmupFailed,       \* history: number of warmup invocations that rejected
    \* workload drivers: mixedWorkload, runConcurrentPostgis, runConcurrentMssql
    driver,             \* which driver function is invoked
    database,           \* ctx.database
    totalOps,           \* totalOps / totalQueries
    writeRatio,         \* writeRatio, in units of 1/RatioScale
    concurrency,        \* concurrency
    wpc,                \* "idle" | "awaiting" | "returned" | "failed"
    ops,                \* the pre-decided kind of each slot
    queue,              \* p-limit's queue: slots waiting for admission
    active,             \* slots whose query is in flight (p-limit's activeCount)
    totalRows,          \* the shared accumulator
    wlReturned,         \* the value the driver resolved with
    succeeded,          \* history: slots whose query resolved
    failedOps,          \* history: slots whose query rejected
    opRows,             \* history: the row count each resolved slot reported
    admitted,           \* history: slots in admission order
    completed,          \* history: slots in completion order
    \* createDockerStatsCollector
    timer,              \* the collector's `timer`: 0 for null, else an interval id
    armed,              \* the intervals setInterval has armed and nobody cleared
    nextTimerId,        \* the id the next setInterval returns
    snapshots,          \* resource_snapshots rows written, in order
    pollCount,          \* number of polls performed
    calls,              \* history: "start" | "stop" | "tick", in order
    lastPoll,           \* history: what the latest poll met, per container
    \* the JavaScript thread, while poll() runs on it
    polling,            \* 0, or the index of the container execSync is waiting on
    pollCaller,         \* "none" | "start" | "tick": who called the running poll()
    \* the statistics helpers of results-db: percentile, computeStats
    sampleValues,       \* the caller's array, handed in as `values`
    given,              \* history: the array as it was before the call
    mcall,              \* "none", or the call that ran: <<"percentile", p>> | <<"computeStats">>
    percentileOut,      \* what percentile returned, in hundredths
    statsOut,           \* what computeStats returned
    sortCalls,          \* history: number of Array.prototype.sort calls made
    \* results-db
    dbOpen,             \* the module's `db` handle: TRUE when open, FALSE for null
    runs,               \* table runs: run_id -> row
    benchmark_results,  \* table benchmark_results, in insertion order
    clock,              \* the instant new Date() reads
    lastOp,             \* history: the latest store operation and how it ended
    \* main
    mpc,                \* the statement main is at
    collectDockerStats, \* config.collectDockerStats
    suites,             \* what discoverSuites returned
    si,                 \* index of `suite` in suites
    di,                 \* index of `database` in config.databases
    ki,                 \* index of `scale` in config.scales
    ci,                 \* index of `benchCase` in suite.cases
    thrown,             \* "none", or what threw the exception main is unwinding with
    opFailed,           \* history: an invocation of a case operation rejected
    mainLog,            \* history: the steps of main around the try block
    hookLog,            \* history: setup hooks completed, cases called, batches
                        \* persisted, teardown hooks called
    summaryTimes        \* `times` of the latest printed summary

caseVars == <<ctx, warmupIterations, iterations, pc, i, awaiting, now, start, results,
              returned, invoked, outcomes, warmupFailed>>

wlVars == <<driver, database, totalOps, writeRatio, concurrency, wpc, ops, queue,
            active, totalRows, wlReturned, succeeded, failedOps, opRows, admitted,
            completed>>

samplerVars == <<timer, armed, nextTimerId, snapshots, pollCount, calls, lastPoll>>

loopVars == <<polling, pollCaller>>

metricsVars == <<sampleValues, given, mcall, percentileOut, statsOut, sortCalls>>

storeVars == <<dbOpen, runs, benchmark_results, clock, lastOp>>

mainVars == <<mpc, collectDockerStats, suites, si, di, ki, ci, thrown, opFailed,
              mainLog, hookLog, summaryTimes>>

vars == <<caseVars, wlVars, samplerVars, loopVars, metricsVars, storeVars, mainVars>>

\* Each action leaves the variables of the other components unchanged.
otherThanCase == <<wlVars, samplerVars, loopVars, metricsVars, storeVars, mainVars>>
otherThanWorkload == <<caseVars, samplerVars, loopVars, metricsVars, storeVars, mainVars>>
otherThanSampler == <<caseVars, wlVars, loopVars, metricsVars, storeVars, mainVars>>
storeRest == <<runs, benchmark_results, clock, lastOp>>
otherThanPoll == <<caseVars, wlVars, loopVars, metricsVars, storeRest, mainVars>>
otherThanStore == <<caseVars, wlVars, loopVars, metricsVars, mainVars>>

\* ----------------------------------------------------------- case executor

\* What a successful operation resolves to.
OpResults == [rowsReturned : 0..MaxRows]

Durations == 1..MaxDuration

IterationIndexZeroBased(k) == k
IterationIndex(k) == k + 1

\* The record pushed for one timed iteration.
MakeRecord(k, elapsed, rows, err) ==
    [iteration |-> IterationIndex(k), queryTimeMs |-> elapsed,
     rowsReturned |-> rows, error |-> err]

\* The ctx argument: a BenchmarkContext, or null.
Contexts == {"context", "null"}

CaseInit ==
    /\ ctx \in Contexts
    /\ warmupIterations \in 0..MaxWarmup
    /\ iterations \in 0..MaxIter
    /\ pc = "warmup"
    /\ i = 0
    /\ awaiting = FALSE
    /\ now = 0
    /\ start = 0
    /\ results = <<>>
    /\ returned = <<>>
    /\ invoked = <<>>
    /\ outcomes = <<>>
    /\ warmupFailed = 0

\* for (i < opts.warmupIterations) { try { await benchCase.fn(ctx) ...
WarmupInvoke ==
    /\ pc = "warmup" /\ ~awaiting /\ i < warmupIterations
    /\ awaiting' = TRUE
    /\ invoked' = Append(invoked, <<"warmup", i>>)
    /\ UNCHANGED otherThanCase
    /\ UNCHANGED <<ctx, warmupIterations, iterations, pc, i, now, start, results, returned,
                   outcomes, warmupFailed>>

\* The warmup invocation resolved: its result is discarded.  An operation
\* reads ctx.database and the pool of ctx first, so with a null ctx it throws
\* a TypeError and never resolves.
WarmupResolve ==
    /\ pc = "warmup" /\ awaiting
    /\ ctx # "null"
    /\ \E d \in Durations : now' = now + d
    /\ awaiting' = FALSE
    /\ i' = i + 1
    /\ UNCHANGED otherThanCase
    /\ UNCHANGED <<ctx, warmupIterations, iterations, pc, start, results, returned,
                   invoked, outcomes, warmupFailed>>

\* A plausible slip: one try/catch around the whole warmup loop, so that the
\* first rejection ends the warmup.
WarmupRejectAborts ==
    /\ pc = "warmup" /\ awaiting
    /\ \E d \in Durations : now' = now + d
    /\ awaiting' = FALSE
    /\ pc' = "timed"
    /\ i' = 0
    /\ warmupFailed' = warmupFailed + 1
    /\ UNCHANGED otherThanCase
    /\ UNCHANGED <<ctx, warmupIterations, iterations, start, results, returned,
                   invoked, outcomes>>
\* The warmup invocation rejected: catch {} ignores the error.
WarmupReject ==
    /\ pc = "warmup" /\ awaiting
    /\ \E d \in Durations : now' = now + d
    /\ awaiting' = FALSE
    /\ i' = i + 1
    /\ warmupFailed' = warmupFailed + 1
    /\ UNCHANGED otherThanCase
    /\ UNCHANGED <<ctx, warmupIterations, iterations, pc, start, results, returned,
                   invoked, outcomes>>

WarmupExit ==
    /\ pc = "warmup" /\ ~awaiting /\ i >= warmupIterations
    /\ pc' = "timed"
    /\ i' = 0
    /\ UNCHANGED otherThanCase
    /\ UNCHANGED <<ctx, warmupIterations, iterations, awaiting, now, start, results,
                   returned, invoked, outcomes, warmupFailed>>

\* const start = performance.now(); ... await benchCase.fn(ctx)
TimedInvoke ==
    /\ pc = "timed" /\ ~awaiting /\ i < iterations
    /\ start' = now
    /\ awaiting' = TRUE
    /\ invoked' = Append(invoked, <<"timed", i>>)
    /\ UNCHANGED otherThanCase
    /\ UNCHANGED <<ctx, warmupIterations, iterations, pc, i, now, results, returned,
                   outcomes, warmupFailed>>

\* The operation resolved: rowsReturned = result.rowsReturned; push the record.
TimedResolve ==
    /\ pc = "timed" /\ awaiting
    /\ ctx # "null"
    /\ \E d \in Durations, res \in OpResults :
          /\ now' = now + d
          /\ results' = Append(results,
                 MakeRecord(i, now' - start, res.rowsReturned, Undefined))
    /\ awaiting' = FALSE
    /\ i' = i + 1
    /\ outcomes' = Append(outcomes, "ok")
    /\ UNCHANGED otherThanCase
    /\ UNCHANGED <<ctx, warmupIterations, iterations, pc, start, returned, invoked,
                   warmupFailed>>

\* A plausible slip: a failed iteration is skipped instead of recorded.
TimedRejectNoRecord ==
    /\ pc = "timed" /\ awaiting
    /\ \E d \in Durations : now' = now + d
    /\ awaiting' = FALSE
    /\ i' = i + 1
    /\ outcomes' = Append(outcomes, "fail")
    /\ UNCHANGED otherThanCase
    /\ UNCHANGED <<ctx, warmupIterations, iterations, pc, start, results, returned,
                   invoked, warmupFailed>>

\* The operation rejected: error = err?.message ?? String(err); rowsReturned
\* keeps its initial 0; push the record.
TimedReject ==
    /\ pc = "timed" /\ awaiting
    /\ \E d \in Durations, err \in ThrownValues :
          /\ now' = now + d
          /\ results' = Append(results,
                 MakeRecord(i, now' - start, 0, ErrorMessage(err)))
    /\ awaiting' = FALSE
    /\ i' = i + 1
    /\ outcomes' = Append(outcomes, "fail")
    /\ UNCHANGED otherThanCase
    /\ UNCHANGED <<ctx, warmupIterations, iterations, pc, start, returned, invoked,
                   warmupFailed>>

\* return results
CaseReturn ==
    /\ pc = "timed" /\ ~awaiting /\ i >= iterations
    /\ pc' = "done"
    /\ returned' = results
    /\ UNCHANGED otherThanCase
    /\ UNCHANGED <<ctx, warmupIterations, iterations, i, awaiting, now, start, results,
                   invoked, outcomes, warmupFailed>>

CaseNext ==
    \/ WarmupInvoke
    \/ WarmupResolve
    \/ WarmupReject
    \/ WarmupExit
    \/ TimedInvoke
    \/ TimedResolve
    \/ TimedReject
    \/ CaseReturn

\* ---------------------------------------------------------- workload driver

Min(a, b) == IF a < b THEN a ELSE b

RECURSIVE SumOver(_, _)
SumOver(f, S) ==
    IF S = {} THEN 0
    ELSE LET k == CHOOSE x \in S : TRUE IN f[k] + SumOver(f, S \ {k})

\* A uniform draw of Math.random(), in units of 1/RatioScale: a value of [0, 1).
Draws == 0..(RatioScale - 1)

\* Math.random() < writeRatio ? 'write' : 'read'
SlotKindInclusive(draw, ratio) == IF draw <= ratio THEN "write" ELSE "read"
SlotKind(draw, ratio) == IF draw < ratio THEN "write" ELSE "read"

\* What a query resolves to.  present = FALSE stands for pg's rowCount being
\* null and for mssql's rowsAffected[0] being undefined.
QueryResults(db, kind) ==
    [present : {TRUE}, count : 0..MaxRows]
        \cup (IF db = "mssql" /\ kind = "read" THEN {}
              ELSE {[present |-> FALSE, count |-> 0]})

\* res.rowCount ?? 0, res.rowsAffected[0] ?? 0, res.recordset.length
RowsOf(res) == IF res.present THEN res.count ELSE 0

\* totalRows += rows, executed after the await has resumed
AddRowsOverwrite(total, rows) == rows
AddRows(total, rows) == total + rows

\* p-limit, on a slot's settling: activeCount--, then the head of the queue,
\* if any, is taken off the queue and started.
PLimitNextBatch(act, q) ==
    IF act = {} /\ q # <<>>
    THEN LET n == Min(concurrency, Len(q))
         IN [active |-> {q[k] : k \in 1..n}, queue |-> SubSeq(q, n + 1, Len(q)),
             started |-> SubSeq(q, 1, n)]
    ELSE [active |-> act, queue |-> q, started |-> <<>>]
PLimitNext(act, q) ==
    IF q # <<>>
    THEN [active |-> act \cup {Head(q)}, queue |-> Tail(q), started |-> <<Head(q)>>]
    ELSE [active |-> act, queue |-> q, started |-> <<>>]

WorkloadIdle ==
    /\ wpc = "idle"
    /\ ops = <<>>
    /\ queue = <<>>
    /\ active = {}
    /\ totalRows = 0
    /\ wlReturned = 0
    /\ succeeded = {}
    /\ failedOps = {}
    /\ opRows = [k \in 1..totalOps |-> 0]
    /\ admitted = <<>>
    /\ completed = <<>>

WorkloadInit ==
    /\ driver \in {"mixedWorkload", "runConcurrentPostgis", "runConcurrentMssql"}
    /\ database \in {"postgis", "mssql"}
    /\ driver = "runConcurrentPostgis" => database = "postgis"
    /\ driver = "runConcurrentMssql" => database = "mssql"
    /\ totalOps \in 0..MaxOps
    /\ writeRatio \in 0..RatioScale
    /\ driver # "mixedWorkload" => writeRatio = 0
    /\ concurrency \in 1..MaxConc
    /\ WorkloadIdle

\* const limit = pLimit(concurrency); let totalRows = 0;
\* await Promise.all(slots.map(slot => limit(async () => ...))):
\* every slot is handed to limit() in queue order; the first `concurrency`
\* of them start, the others wait.  Promise.all([]) resolves at once.
Dispatch(kinds) ==
    /\ ops' = kinds
    /\ totalRows' = 0
    /\ active' = 1..Min(concurrency, totalOps)
    /\ admitted' = [k \in 1..Min(concurrency, totalOps) |-> k]
    /\ queue' = [k \in 1..(totalOps - Min(concurrency, totalOps)) |->
                     k + Min(concurrency, totalOps)]
    /\ IF totalOps = 0
       THEN wpc' = "returned" /\ wlReturned' = 0
       ELSE wpc' = "awaiting" /\ UNCHANGED wlReturned
    /\ UNCHANGED otherThanWorkload
    /\ UNCHANGED <<driver, database, totalOps, writeRatio, concurrency, succeeded,
                   failedOps, opRows, completed>>

\* mixedWorkload: const ops = Array.from({length: totalOps},
\*     () => Math.random() < writeRatio ? 'write' : 'read')
MixedWorkloadCall ==
    /\ wpc = "idle" /\ driver = "mixedWorkload"
    /\ \E draws \in [1..totalOps -> Draws] :
          Dispatch([k \in 1..totalOps |-> SlotKind(draws[k], writeRatio)])

\* runConcurrentPostgis / runConcurrentMssql: every slot is an intersects query.
RunConcurrentCall ==
    /\ wpc = "idle" /\ driver # "mixedWorkload"
    /\ Dispatch([k \in 1..totalOps |-> "read"])

\* The query of slot k resolves: totalRows += rows; the slot's promise
\* resolves, p-limit admits the next slot, and Promise.all resolves when this
\* was the last slot and none has rejected: return totalRows.
OpSucceed(k) ==
    /\ k \in active
    /\ \E res \in QueryResults(database, ops[k]) :
          /\ totalRows' = AddRows(totalRows, RowsOf(res))
          /\ opRows' = [opRows EXCEPT ![k] = RowsOf(res)]
    /\ succeeded' = succeeded \cup {k}
    /\ completed' = Append(completed, k)
    /\ LET nxt == PLimitNext(active \ {k}, queue) IN
          /\ active' = nxt.active
          /\ queue' = nxt.queue
          /\ admitted' = admitted \o nxt.started
    /\ IF wpc = "awaiting" /\ succeeded' = 1..totalOps
       THEN wpc' = "returned" /\ wlReturned' = totalRows'
       ELSE UNCHANGED <<wpc, wlReturned>>
    /\ UNCHANGED otherThanWorkload
    /\ UNCHANGED <<driver, database, totalOps, writeRatio, concurrency, ops, failedOps>>

\* The query of slot k rejects: the slot's promise rejects, p-limit admits the
\* next slot, and Promise.all rejects with the first rejection: the driver
\* throws while its other slots go on.
OpFail(k) ==
    /\ k \in active
    /\ failedOps' = failedOps \cup {k}
    /\ completed' = Append(completed, k)
    /\ LET nxt == PLimitNext(active \ {k}, queue) IN
          /\ active' = nxt.active
          /\ queue' = nxt.queue
          /\ admitted' = admitted \o nxt.started
    /\ wpc' = IF wpc = "awaiting" THEN "failed" ELSE wpc
    /\ UNCHANGED otherThanWorkload
    /\ UNCHANGED <<driver, database, totalOps, writeRatio, concurrency, ops, totalRows,
                   wlReturned, succeeded, opRows>>

WorkloadNext ==
    \/ MixedWorkloadCall
    \/ RunConcurrentCall
    \/ \E k \in 1..totalOps : OpSucceed(k)
    \/ \E k \in 1..totalOps : OpFail(k)

\* ---------------------------------------------------------- resource sampler

\* config.dockerContainers, in the order poll() walks them.
Containers == <<"bench-postgis", "bench-mssql">>

ContainerSet == {Containers[k] : k \in 1..Len(Containers)}

\* What one container's query can meet in a poll:
\*   "ok"          docker stats answered and the snapshot was inserted
\*   "empty"       docker stats printed nothing (if (!raw) continue)
\*   "unreachable" execSync or JSON.parse threw (caught)
\*   "writeFailed" insertResourceSnapshot threw (caught)
PollOutcomes == {"ok", "empty", "unreachable", "writeFailed"}

\* The rows one poll writes: one per container that answered, in order.
\* A plausible slip: the try/catch wraps the loop, so the first container that
\* cannot be queried ends the poll.
RECURSIVE PollWritesFromAbort(_, _, _)
PollWritesFromAbort(k, out, n) ==
    IF k > Len(Containers) THEN <<>>
    ELSE IF out[Containers[k]] = "ok"
         THEN <<[container |-> Containers[k], poll |-> n]>>
                  \o PollWritesFromAbort(k + 1, out, n)
         ELSE <<>>
RECURSIVE PollWritesFrom(_, _, _)
PollWritesFrom(k, out, n) ==
    IF k > Len(Containers) THEN <<>>
    ELSE (IF out[Containers[k]] = "ok"
          THEN <<[container |-> Containers[k], poll |-> n]>>
          ELSE <<>>) \o PollWritesFrom(k + 1, out, n)
PollWrites(out, n) == PollWritesFrom(1, out, n)

\* function poll(): for (const container of containers) { try {...} catch {} }
\* A snapshot that is written went through getDb, which opens the store when
\* the handle is null.
Poll(out) ==
    /\ pollCount' = pollCount + 1
    /\ snapshots' = snapshots \o PollWrites(out, pollCount + 1)
    /\ dbOpen' = (dbOpen \/ PollWrites(out, pollCount + 1) # <<>>)
    /\ lastPoll' = out

SamplerInit ==
    /\ timer = 0
    /\ armed = {}
    /\ nextTimerId = 1
    /\ snapshots = <<>>
    /\ pollCount = 0
    /\ calls = <<>>
    /\ lastPoll = [c \in ContainerSet |-> "unreachable"]

\* start() { poll(); timer = setInterval(poll, intervalMs); }
SamplerStart ==
    /\ Len(calls) < MaxEvents
    /\ \E out \in [ContainerSet -> PollOutcomes] : Poll(out)
    /\ timer' = nextTimerId
    /\ armed' = armed \cup {nextTimerId}
    /\ nextTimerId' = nextTimerId + 1
    /\ calls' = Append(calls, "start")
    /\ UNCHANGED otherThanPoll

\* A plausible slip: stop() forgets the handle without clearing the interval.
SamplerStopNoClear ==
    /\ Len(calls) < MaxEvents
    /\ timer' = 0
    /\ calls' = Append(calls, "stop")
    /\ UNCHANGED <<armed, nextTimerId, snapshots, pollCount, lastPoll>>
    /\ UNCHANGED otherThanSampler

\* stop() { if (timer) { clearInterval(timer); timer = null; } }
SamplerStop ==
    /\ Len(calls) < MaxEvents
    /\ IF timer # 0
       THEN armed' = armed \ {timer} /\ timer' = 0
       ELSE UNCHANGED <<armed, timer>>
    /\ calls' = Append(calls, "stop")
    /\ UNCHANGED <<nextTimerId, snapshots, pollCount, lastPoll>>
    /\ UNCHANGED otherThanSampler

\* An armed interval fires: poll().
SamplerTick(t) ==
    /\ Len(calls) < MaxEvents
    /\ t \in armed
    /\ \E out \in [ContainerSet -> PollOutcomes] : Poll(out)
    /\ calls' = Append(calls, "tick")
    /\ UNCHANGED <<timer, armed, nextTimerId>>
    /\ UNCHANGED otherThanPoll

SamplerNext ==
    \/ SamplerStart
    \/ SamplerStop
    \/ \E t \in armed : SamplerTick(t)

\* --------------------------------------------------- the shared event loop

\* poll() runs execSync, which returns only when `docker stats` has exited or
\* its 5 s timeout has passed: from the entry into poll() to its return the
\* thread runs no other callback.  The steps of poll() are spelled out here,
\* one per container, and every other callback waits for polling = 0.

LoopIdle == polling = 0 /\ pollCaller = "none"

\* poll() is entered: called by start(), or by an armed interval.
PollEnter(caller) ==
    /\ pollCount < MaxPolls
    /\ polling' = 1
    /\ pollCaller' = caller
    /\ pollCount' = pollCount + 1
    /\ calls' = Append(calls, caller)
    /\ UNCHANGED <<timer, armed, nextTimerId, snapshots, lastPoll>>
    /\ UNCHANGED <<caseVars, wlVars, metricsVars, storeVars, mainVars>>

\* One turn of the for loop: execSync for Containers[polling] returns or throws
\* after d ms; on the last container poll() returns, and start() goes on to
\* timer = setInterval(poll, intervalMs).
PollQuery ==
    /\ polling \in 1..Len(Containers)
    /\ \E d \in Durations, out \in PollOutcomes :
          /\ now' = now + d
          /\ snapshots' = snapshots \o
                 (IF out = "ok"
                  THEN <<[container |-> Containers[polling], poll |-> pollCount]>>
                  ELSE <<>>)
          /\ dbOpen' = (dbOpen \/ out = "ok")
          /\ lastPoll' = [lastPoll EXCEPT ![Containers[polling]] = out]
    /\ IF polling < Len(Containers)
       THEN /\ polling' = polling + 1
            /\ UNCHANGED <<pollCaller, timer, armed, nextTimerId>>
       ELSE /\ polling' = 0
            /\ pollCaller' = "none"
            /\ IF pollCaller = "start"
               THEN /\ timer' = nextTimerId
                    /\ armed' = armed \cup {nextTimerId}
                    /\ nextTimerId' = nextTimerId + 1
               ELSE UNCHANGED <<timer, armed, nextTimerId>>
    /\ UNCHANGED <<pollCount, calls>>
    /\ UNCHANGED <<ctx, warmupIterations, iterations, pc, i, awaiting, start, results,
                   returned, invoked, outcomes, warmupFailed>>
    /\ UNCHANGED <<wlVars, metricsVars, storeRest, mainVars>>

\* start() { poll(); ... }
LoopStart == polling = 0 /\ PollEnter("start")

\* An armed interval fires: poll().
LoopTick == polling = 0 /\ armed # {} /\ PollEnter("tick")

\* The callbacks of the case executor run between polls.
LoopWarmupInvoke == polling = 0 /\ WarmupInvoke
LoopWarmupResolve == polling = 0 /\ WarmupResolve
LoopWarmupReject == polling = 0 /\ WarmupReject
LoopWarmupExit == polling = 0 /\ WarmupExit
LoopTimedInvoke == polling = 0 /\ TimedInvoke
LoopTimedResolve == polling = 0 /\ TimedResolve
LoopTimedReject == polling = 0 /\ TimedReject
LoopCaseReturn == polling = 0 /\ CaseReturn

EventLoopNext ==
    \/ LoopStart
    \/ LoopTick
    \/ PollQuery
    \/ LoopWarmupInvoke
    \/ LoopWarmupResolve
    \/ LoopWarmupReject
    \/ LoopWarmupExit
    \/ LoopTimedInvoke
    \/ LoopTimedResolve
    \/ LoopTimedReject
    \/ LoopCaseReturn

\* ------------------------------------------------------------ result store

RunIds == {"run-1", "run-2"}

\* lastOp: the operation, whether it returned (ok) or threw, the run it named,
\* and its rows: the rows it was given when it returned, the row whose insert
\* threw when it threw.
StoreOp(op, ok, runId, rows) == [op |-> op, ok |-> ok, runId |-> runId, rows |-> rows]

StoreIdle ==
    /\ dbOpen = FALSE
    /\ runs = <<>>
    /\ benchmark_results = <<>>
    /\ clock = 0
    /\ lastOp = StoreOp("none", TRUE, "", <<>>)

\* A row of runs as insertRun writes it; finished_at = 0 stands for NULL.
RunRow(t) == [started_at |-> t, finished_at |-> 0, config_json |-> "config"]

\* A plausible slip: INSERT OR REPLACE INTO runs.
insertRunOrReplace(runId) ==
    /\ dbOpen' = TRUE
    /\ clock' = clock + 1
    /\ runs' = [r \in DOMAIN runs \cup {runId} |->
                   IF r = runId THEN RunRow(clock + 1) ELSE runs[r]]
    /\ lastOp' = StoreOp("insertRun", TRUE, runId, <<>>)
    /\ UNCHANGED <<benchmark_results, snapshots>>
\* insertRun: INSERT INTO runs (run_id, started_at, config_json); run_id is the
\* PRIMARY KEY, so the statement throws when the row exists.
insertRun(runId) ==
    /\ dbOpen' = TRUE
    /\ clock' = clock + 1
    /\ IF runId \in DOMAIN runs
       THEN /\ UNCHANGED runs
            /\ lastOp' = StoreOp("insertRun", FALSE, runId, <<>>)
       ELSE /\ runs' = [r \in DOMAIN runs \cup {runId} |->
                           IF r = runId THEN RunRow(clock + 1) ELSE runs[r]]
            /\ lastOp' = StoreOp("insertRun", TRUE, runId, <<>>)
    /\ UNCHANGED <<benchmark_results, snapshots>>

\* A plausible slip: finishing a run rewrites its whole row.
finishRunRewrite(runId) ==
    /\ dbOpen' = TRUE
    /\ clock' = clock + 1
    /\ runs' = [r \in DOMAIN runs |->
                   IF r = runId
                   THEN [RunRow(clock + 1) EXCEPT !.finished_at = clock + 1]
                   ELSE runs[r]]
    /\ lastOp' = StoreOp("finishRun", TRUE, runId, <<>>)
    /\ UNCHANGED <<benchmark_results, snapshots>>
\* finishRun: UPDATE runs SET finished_at = ? WHERE run_id = ?
finishRun(runId) ==
    /\ dbOpen' = TRUE
    /\ clock' = clock + 1
    /\ runs' = [r \in DOMAIN runs |->
                   IF r = runId THEN [runs[r] EXCEPT !.finished_at = clock + 1]
                   ELSE runs[r]]
    /\ lastOp' = StoreOp("finishRun", TRUE, runId, <<>>)
    /\ UNCHANGED <<benchmark_results, snapshots>>

\* insertResult: one INSERT INTO benchmark_results; it throws when the
\* statement fails (bad), and then nothing is written.
insertResult(result, bad) ==
    /\ dbOpen' = TRUE
    /\ clock' = clock + 1
    /\ benchmark_results' =
           IF bad THEN benchmark_results ELSE Append(benchmark_results, result)
    /\ lastOp' = StoreOp("insertResult", ~bad, result.runId, <<result>>)
    /\ UNCHANGED <<runs, snapshots>>

\* The rows a batch leaves behind when stmt.run throws at row `bad` (0: no row
\* throws).  A plausible slip: the loop runs outside a transaction.
BatchRowsNoTransaction(rows, bad) ==
    IF bad = 0 THEN rows ELSE SubSeq(rows, 1, bad - 1)
\* d.transaction(...) rolls the batch back when the function throws.
BatchRows(rows, bad) ==
    IF bad = 0 THEN rows ELSE <<>>

\* insertResults: tx(results)
insertResults(rows, bad) ==
    /\ dbOpen' = TRUE
    /\ clock' = clock + 1
    /\ benchmark_results' = benchmark_results \o BatchRows(rows, bad)
    /\ lastOp' = StoreOp("insertResults", bad = 0,
                         IF rows = <<>> THEN "" ELSE rows[1].runId,
                         IF bad = 0 THEN rows ELSE <<rows[bad]>>)
    /\ UNCHANGED <<runs, snapshots>>

\* insertResourceSnapshot: one INSERT INTO resource_snapshots.
insertResourceSnapshot(snapshot) ==
    /\ dbOpen' = TRUE
    /\ clock' = clock + 1
    /\ snapshots' = Append(snapshots, snapshot)
    /\ lastOp' = StoreOp("insertResourceSnapshot", TRUE, "", <<>>)
    /\ UNCHANGED <<runs, benchmark_results>>

\* getResultsByRun: SELECT * FROM benchmark_results WHERE run_id = ?
RECURSIVE SelectRows(_, _)
SelectRows(rows, runId) ==
    IF rows = <<>> THEN <<>>
    ELSE (IF Head(rows).runId = runId THEN <<Head(rows)>> ELSE <<>>)
             \o SelectRows(Tail(rows), runId)
getResultsByRun(runId) == SelectRows(benchmark_results, runId)

\* The columns getStatsForRun groups by.
GroupOf(r) == [suite |-> r.suite, benchmark |-> r.benchmark,
               database |-> r.database, scale |-> r.scale]

\* SELECT DISTINCT suite, benchmark, database, scale ... WHERE run_id = ?
\* in the order of first appearance.
RECURSIVE DistinctGroups(_, _)
DistinctGroups(rows, seen) ==
    IF rows = <<>> THEN <<>>
    ELSE IF GroupOf(Head(rows)) \in seen THEN DistinctGroups(Tail(rows), seen)
         ELSE <<GroupOf(Head(rows))>>
                  \o DistinctGroups(Tail(rows), seen \cup {GroupOf(Head(rows))})

\* A plausible slip: the filter on the error column is left out.
RECURSIVE TimesOfAll(_, _)
TimesOfAll(rows, g) ==
    IF rows = <<>> THEN <<>>
    ELSE (IF GroupOf(Head(rows)) = g
          THEN <<Head(rows).queryTimeMs>> ELSE <<>>) \o TimesOfAll(Tail(rows), g)
\* SELECT query_time_ms ... WHERE run_id = ? AND <group> AND error IS NULL
\* (rows: the rows of the run).  A column holds NULL where the record's field
\* is undefined.
RECURSIVE TimesOf(_, _)
TimesOf(rows, g) ==
    IF rows = <<>> THEN <<>>
    ELSE (IF GroupOf(Head(rows)) = g /\ ~Head(rows).error.defined
          THEN <<Head(rows).queryTimeMs>> ELSE <<>>) \o TimesOf(Tail(rows), g)

RECURSIVE min(_)
min(values) ==
    IF values = <<>> THEN 0
    ELSE IF Len(values) = 1 THEN values[1]
    ELSE Min(values[1], min(Tail(values)))

RECURSIVE max(_)
max(values) ==
    IF values = <<>> THEN 0
    ELSE IF Len(values) = 1 THEN values[1]
    ELSE IF values[1] >= max(Tail(values)) THEN values[1] ELSE max(Tail(values))

\* computeStats: the fields the store claims speak about.
computeStats(values) ==
    [count |-> Len(values), min |-> min(values), max |-> max(values)]

\* getStatsForRun: groups.map(g => ({ ...g, ...computeStats(times) }))
getStatsForRun(runId) ==
    LET rows == getResultsByRun(runId)
        groups == DistinctGroups(rows, {})
    IN  [k \in 1..Len(groups) |->
            [group |-> groups[k], stats |-> computeStats(TimesOf(rows, groups[k]))]]

\* The store on its own: any caller, any order of operations.

Benchmarks == {"bbox-small", "bbox-large"}
RecordErrors == {Undefined, Str("boom")}

\* A record as runBenchmarkCase builds it for one run, suite, case, target
\* and scale; query_plan and timestamp are left out.
StoreRecord(runId, benchmark, k, err) ==
    [runId |-> runId, suite |-> "bbox", benchmark |-> benchmark,
     database |-> "postgis", scale |-> 5000, iteration |-> k,
     queryTimeMs |-> k, rowsReturned |-> 0, error |-> err]

\* The batches main hands over: the records of one case, iterations 1..n.
Batches ==
    UNION { { [k \in 1..n |-> StoreRecord(r, b, k, e[k])] :
                r \in RunIds, b \in Benchmarks, e \in [1..n -> RecordErrors] } :
            n \in 0..MaxIter }

MaxStoreRows == MaxIter + 1

StoreInsertRun(runId) ==
    /\ clock < MaxStoreOps
    /\ insertRun(runId)
    /\ UNCHANGED <<timer, armed, nextTimerId, pollCount, calls, lastPoll>>
    /\ UNCHANGED otherThanStore

StoreFinishRun(runId) ==
    /\ clock < MaxStoreOps
    /\ finishRun(runId)
    /\ UNCHANGED <<timer, armed, nextTimerId, pollCount, calls, lastPoll>>
    /\ UNCHANGED otherThanStore

StoreInsertResult(result, bad) ==
    /\ clock < MaxStoreOps
    /\ Len(benchmark_results) < MaxStoreRows
    /\ insertResult(result, bad)
    /\ UNCHANGED <<timer, armed, nextTimerId, pollCount, calls, lastPoll>>
    /\ UNCHANGED otherThanStore

StoreInsertResults(rows, bad) ==
    /\ clock < MaxStoreOps
    /\ Len(benchmark_results) + Len(rows) <= MaxStoreRows
    /\ insertResults(rows, bad)
    /\ UNCHANGED <<timer, armed, nextTimerId, pollCount, calls, lastPoll>>
    /\ UNCHANGED otherThanStore

StoreInsertResourceSnapshot(snapshot) ==
    /\ clock < MaxStoreOps
    /\ insertResourceSnapshot(snapshot)
    /\ UNCHANGED <<timer, armed, nextTimerId, pollCount, calls, lastPoll>>
    /\ UNCHANGED otherThanStore

\* The two queries open the store and write nothing.
StoreGetResultsByRun(runId) ==
    /\ clock < MaxStoreOps
    /\ dbOpen' = TRUE
    /\ clock' = clock + 1
    /\ lastOp' = StoreOp("getResultsByRun", TRUE, runId, <<>>)
    /\ UNCHANGED <<runs, benchmark_results>>
    /\ UNCHANGED <<samplerVars, otherThanStore>>

StoreGetStatsForRun(runId) ==
    /\ clock < MaxStoreOps
    /\ dbOpen' = TRUE
    /\ clock' = clock + 1
    /\ lastOp' = StoreOp("getStatsForRun", TRUE, runId, <<>>)
    /\ UNCHANGED <<runs, benchmark_results>>
    /\ UNCHANGED <<samplerVars, otherThanStore>>

\* closeDb() { if (db) { db.close(); db = null; } }
closeDb ==
    /\ dbOpen' = FALSE
    /\ lastOp' = StoreOp("closeDb", TRUE, "", <<>>)
    /\ UNCHANGED <<runs, benchmark_results, clock>>

StoreCloseDb ==
    /\ dbOpen
    /\ closeDb
    /\ UNCHANGED <<samplerVars, otherThanStore>>

StoreNext ==
    \/ \E r \in RunIds : StoreInsertRun(r)
    \/ \E r \in RunIds : StoreFinishRun(r)
    \/ \E r \in RunIds, b \in Benchmarks, e \in RecordErrors, bad \in BOOLEAN :
           StoreInsertResult(StoreRecord(r, b, 1, e), bad)
    \/ \E rows \in Batches : \E bad \in 0..Len(rows) : StoreInsertResults(rows, bad)
    \/ \E c \in ContainerSet :
           StoreInsertResourceSnapshot([container |-> c, poll |-> 0])
    \/ \E r \in RunIds : StoreGetResultsByRun(r)
    \/ \E r \in RunIds : StoreGetStatsForRun(r)
    \/ StoreCloseDb

\* ------------------------------------------------------ statistics helpers

\* percentile and computeStats of results-db.ts, applied to an array the
\* caller holds. Values are whole milliseconds; a percentile is kept in
\* hundredths of a millisecond, so that the linear interpolation
\* sorted[lower] + fraction * (sorted[upper] - sorted[lower]) is exact for the
\* integer p the code uses (the rounding of IEEE doubles is left out).
Percents == {0, 50, 95, 99, 100}

\* The arrays a caller can hand in: any order, duplicates, empty.
SampleArrays == UNION {[1..n -> 0..MaxDuration] : n \in 0..MaxSamples}

RECURSIVE InsertSorted(_, _)
InsertSorted(sorted, v) ==
    IF sorted = <<>> THEN <<v>>
    ELSE IF v < Head(sorted) THEN <<v>> \o sorted
    ELSE <<Head(sorted)>> \o InsertSorted(Tail(sorted), v)

\* [...values].sort((a, b) => a - b): a sorted copy, ascending.
RECURSIVE SortedCopy(_)
SortedCopy(vals) ==
    IF vals = <<>> THEN <<>>
    ELSE InsertSorted(SortedCopy(SubSeq(vals, 1, Len(vals) - 1)), vals[Len(vals)])

\* index = (p / 100) * (sorted.length - 1), in hundredths.
PercentileIndex(n, p) == p * (n - 1)

\* A percentile read from the array as given, without sorting it.
percentileOfUnsorted(vals, p) ==
    IF Len(vals) = 0 THEN 0
    ELSE 100 * vals[1 + (PercentileIndex(Len(vals), p) \div 100)]

\* percentile(values, p), in hundredths; arrays are 0-based in the code.
percentile(vals, p) ==
    IF Len(vals) = 0 THEN 0
    ELSE IF Len(vals) = 1 THEN 100 * vals[1]
    ELSE LET sorted == SortedCopy(vals)
             index == PercentileIndex(Len(sorted), p)
             lower == index \div 100
             upper == IF index % 100 = 0 THEN lower ELSE lower + 1
             fraction == index % 100
         IN  IF lower = upper THEN 100 * sorted[lower + 1]
             ELSE 100 * sorted[lower + 1]
                      + fraction * (sorted[upper + 1] - sorted[lower + 1])

\* The number of sort calls one percentile call makes: the two early returns
\* come before the sort.
PercentileSorts(vals) == IF Len(vals) < 2 THEN 0 ELSE 1

p50(vals) == percentile(vals, 50)

p95(vals) == percentile(vals, 95)

p99(vals) == percentile(vals, 99)

\* The percentile fields of computeStats' result; computeStats above has the
\* count, min and max fields (mean and stddev are left out).
Percentiles(vals) == [p50 |-> p50(vals), p95 |-> p95(vals), p99 |-> p99(vals)]

MetricsIdle ==
    /\ sampleValues = <<>> /\ given = <<>> /\ mcall = <<"none">>
    /\ percentileOut = 0 /\ statsOut = <<>> /\ sortCalls = 0

MetricsInit ==
    /\ sampleValues \in SampleArrays
    /\ given = sampleValues
    /\ mcall = <<"none">> /\ percentileOut = 0 /\ statsOut = <<>> /\ sortCalls = 0

\* percentile(values, p): sorts a copy, the caller's array is not written.
MetricsPercentile(p) ==
    /\ mcall = <<"none">>
    /\ mcall' = <<"percentile", p>>
    /\ percentileOut' = percentile(sampleValues, p)
    /\ sortCalls' = sortCalls + PercentileSorts(sampleValues)
    /\ UNCHANGED <<sampleValues, given, statsOut>>
    /\ UNCHANGED <<caseVars, wlVars, samplerVars, loopVars, storeVars, mainVars>>

\* computeStats(values): min, max, mean and stddev do not sort; p50, p95 and
\* p99 each call percentile, which sorts its own copy.
MetricsComputeStats ==
    /\ mcall = <<"none">>
    /\ mcall' = <<"computeStats">>
    /\ statsOut' = computeStats(sampleValues) @@ Percentiles(sampleValues)
    /\ sortCalls' = sortCalls + PercentileSorts(sampleValues)
                        + PercentileSorts(sampleValues) + PercentileSorts(sampleValues)
    /\ UNCHANGED <<sampleValues, given, percentileOut>>
    /\ UNCHANGED <<caseVars, wlVars, samplerVars, loopVars, storeVars, mainVars>>

MetricsNext ==
    \/ \E p \in Percents : MetricsPercentile(p)
    \/ MetricsComputeStats

\* ------------------------------------------------------------------- main

\* parseArgs over DEFAULT_CONFIG, scaled down: one scale, one warmup and two
\* timed iterations per case.  collectDockerStats is a variable.
config == [databases |-> <<"postgis", "mssql">>, scales |-> <<5000>>,
           iterations |-> 2, warmupIterations |-> 1]

\* const runId = randomUUID()
runId == "run-1"

\* What discoverSuites finds when the suites directory is not empty: the mixed
\* workload suite (teardown, no setup, both targets) and a suite with a setup
\* hook for one target only, as the BenchmarkSuite interface allows.
DiscoveredSuites ==
    << [name |-> "mixed-workload", databases |-> {"postgis", "mssql"},
        setup |-> FALSE, teardown |-> TRUE, cases |-> <<"mixed-workload-80-20">>],
       [name |-> "custom", databases |-> {"postgis"},
        setup |-> TRUE, teardown |-> TRUE, cases |-> <<"custom-case">>] >>

MainIdle ==
    /\ mpc = "idle" /\ collectDockerStats = FALSE /\ suites = <<>>
    /\ si = 1 /\ di = 1 /\ ki = 1 /\ ci = 1
    /\ thrown = "none" /\ opFailed = FALSE /\ mainLog = <<>>
    /\ hookLog = <<>> /\ summaryTimes = <<>>

MainInit ==
    /\ mpc = "insertRun" /\ collectDockerStats \in BOOLEAN /\ suites = <<>>
    /\ si = 1 /\ di = 1 /\ ki = 1 /\ ci = 1
    /\ thrown = "none" /\ opFailed = FALSE /\ mainLog = <<>>
    /\ hookLog = <<>> /\ summaryTimes = <<>>

samplerRest == <<timer, armed, nextTimerId, pollCount, calls, lastPoll>>
mainConfig == <<collectDockerStats, suites>>
mainIndex == <<si, di, ki, ci>>

\* insertRun(dbPath, runId, JSON.stringify(config)): runId is fresh.
MainInsertRun ==
    /\ mpc = "insertRun"
    /\ insertRun(runId)
    /\ mpc' = "discover"
    /\ UNCHANGED <<mainConfig, mainIndex, thrown, opFailed, mainLog>>
    /\ UNCHANGED <<samplerRest, caseVars, wlVars, loopVars, metricsVars>>
    /\ UNCHANGED <<hookLog, summaryTimes>>

\* const suites = await discoverSuites(config.suites)
MainDiscover ==
    /\ mpc = "discover"
    /\ \E found \in {<<>>, DiscoveredSuites} :
          /\ suites' = found
          /\ mpc' = IF found = <<>> THEN "noSuites" ELSE "sampler"
    /\ UNCHANGED <<collectDockerStats, mainIndex, thrown, opFailed, mainLog>>
    /\ UNCHANGED <<samplerVars, caseVars, wlVars, loopVars, metricsVars, storeVars>>
    /\ UNCHANGED <<hookLog, summaryTimes>>

\* if (suites.length === 0) { finishRun(dbPath, runId); ...
MainNoSuitesFinishRun ==
    /\ mpc = "noSuites"
    /\ finishRun(runId)
    /\ mpc' = "noSuitesCloseDb"
    /\ UNCHANGED <<mainConfig, mainIndex, thrown, opFailed, mainLog>>
    /\ UNCHANGED <<samplerRest, caseVars, wlVars, loopVars, metricsVars>>
    /\ UNCHANGED <<hookLog, summaryTimes>>

\* ... closeDb(); return; }
MainNoSuitesCloseDb ==
    /\ mpc = "noSuitesCloseDb"
    /\ closeDb
    /\ mpc' = "resolved"
    /\ UNCHANGED <<mainConfig, mainIndex, thrown, opFailed, mainLog>>
    /\ UNCHANGED <<samplerVars, caseVars, wlVars, loopVars, metricsVars>>
    /\ UNCHANGED <<hookLog, summaryTimes>>

\* The outcomes of a poll inside a run: both containers answer, or neither.
MainPollOutcomes ==
    {[c \in ContainerSet |-> "ok"], [c \in ContainerSet |-> "unreachable"]}

\* if (config.collectDockerStats) { statsCollector = createDockerStatsCollector(...);
\* statsCollector.start(); }
MainStartSampler ==
    /\ mpc = "sampler"
    /\ IF collectDockerStats
       THEN /\ \E out \in MainPollOutcomes : Poll(out)
            /\ timer' = nextTimerId
            /\ armed' = armed \cup {nextTimerId}
            /\ nextTimerId' = nextTimerId + 1
            /\ calls' = Append(calls, "start")
            /\ mainLog' = Append(mainLog, "start")
       ELSE UNCHANGED <<samplerVars, mainLog, dbOpen>>
    /\ mpc' = "try"
    /\ UNCHANGED <<mainConfig, mainIndex, thrown, opFailed>>
    /\ UNCHANGED <<caseVars, wlVars, loopVars, metricsVars, storeRest>>
    /\ UNCHANGED <<hookLog, summaryTimes>>

\* try {
MainEnterTry ==
    /\ mpc = "try"
    /\ mpc' = "loop"
    /\ mainLog' = Append(mainLog, "try")
    /\ UNCHANGED <<mainConfig, mainIndex, thrown, opFailed>>
    /\ UNCHANGED <<samplerVars, caseVars, wlVars, loopVars, metricsVars, storeVars>>
    /\ UNCHANGED <<hookLog, summaryTimes>>

InSuites == si <= Len(suites)
InDatabases == InSuites /\ di <= Len(config.databases)
\* A plausible slip: the `continue` for unsupported databases is missing.
SupportedAlways == InDatabases
Supported == InDatabases /\ config.databases[di] \in suites[si].databases
InScales == Supported /\ ki <= Len(config.scales)

\* An entry of hookLog, for the combination the loops are at.
HookEvent(ev, benchmark) ==
    [ev |-> ev, suite |-> suites[si].name, database |-> config.databases[di],
     scale |-> config.scales[ki], benchmark |-> benchmark]

\* An exception leaves the try block: control goes to finally.
Throw(what) ==
    /\ thrown' = what
    /\ mpc' = "finally"
    /\ mainLog' = Append(mainLog, "leave")

\* for (const suite of suites): no suite is left, the try block ends.
MainSuitesDone ==
    /\ mpc = "loop" /\ ~InSuites
    /\ mpc' = "finally"
    /\ mainLog' = Append(mainLog, "leave")
    /\ UNCHANGED <<mainConfig, mainIndex, thrown, opFailed>>
    /\ UNCHANGED <<samplerVars, caseVars, wlVars, loopVars, metricsVars, storeVars>>
    /\ UNCHANGED <<hookLog, summaryTimes>>

\* for (const database of config.databases): no database is left.
MainNextSuite ==
    /\ mpc = "loop" /\ InSuites /\ ~InDatabases
    /\ si' = si + 1 /\ di' = 1
    /\ UNCHANGED <<mpc, mainConfig, ki, ci, thrown, opFailed, mainLog>>
    /\ UNCHANGED <<samplerVars, caseVars, wlVars, loopVars, metricsVars, storeVars>>
    /\ UNCHANGED <<hookLog, summaryTimes>>

\* if (!suite.databases.includes(database)) continue;
MainSkipDatabase ==
    /\ mpc = "loop" /\ InDatabases /\ ~Supported
    /\ di' = di + 1
    /\ UNCHANGED <<mpc, mainConfig, si, ki, ci, thrown, opFailed, mainLog>>
    /\ UNCHANGED <<samplerVars, caseVars, wlVars, loopVars, metricsVars, storeVars>>
    /\ UNCHANGED <<hookLog, summaryTimes>>

\* for (const scale of config.scales): no scale is left.
MainNextDatabase ==
    /\ mpc = "loop" /\ Supported /\ ~InScales
    /\ di' = di + 1 /\ ki' = 1
    /\ UNCHANGED <<mpc, mainConfig, si, ci, thrown, opFailed, mainLog>>
    /\ UNCHANGED <<samplerVars, caseVars, wlVars, loopVars, metricsVars, storeVars>>
    /\ UNCHANGED <<hookLog, summaryTimes>>

\* const ctx = { ..., pgPool: getPgPool(), mssqlPool: await getMssqlPool() }
MainBuildContext ==
    /\ mpc = "loop" /\ InScales
    /\ mpc' = IF suites[si].setup THEN "setup" ELSE "cases"
    /\ ci' = 1
    /\ UNCHANGED <<mainConfig, si, di, ki, thrown, opFailed, mainLog>>
    /\ UNCHANGED <<samplerVars, caseVars, wlVars, loopVars, metricsVars, storeVars>>
    /\ UNCHANGED <<hookLog, summaryTimes>>

\* getMssqlPool rejects: new mssql.ConnectionPool(mssqlConfig).connect() failed.
MainConnectThrows ==
    /\ mpc = "loop" /\ InScales /\ config.databases[di] = "mssql"
    /\ Throw("connect")
    /\ UNCHANGED <<mainConfig, mainIndex, opFailed>>
    /\ UNCHANGED <<samplerVars, caseVars, wlVars, loopVars, metricsVars, storeVars>>
    /\ UNCHANGED <<hookLog, summaryTimes>>

\* if (suite.setup) await suite.setup(ctx)
MainSetup ==
    /\ mpc = "setup"
    /\ mpc' = "cases"
    /\ hookLog' = Append(hookLog, HookEvent("setup", ""))
    /\ UNCHANGED <<mainConfig, mainIndex, thrown, opFailed, mainLog, summaryTimes>>
    /\ UNCHANGED <<samplerVars, caseVars, wlVars, loopVars, metricsVars, storeVars>>

MainSetupThrows ==
    /\ mpc = "setup"
    /\ Throw("setup")
    /\ UNCHANGED <<mainConfig, mainIndex, opFailed>>
    /\ UNCHANGED <<samplerVars, caseVars, wlVars, loopVars, metricsVars, storeVars>>
    /\ UNCHANGED <<hookLog, summaryTimes>>

\* const results = await runBenchmarkCase(benchCase, ctx, { runId, suite, ... })
MainCallCase ==
    /\ mpc = "cases" /\ ci <= Len(suites[si].cases)
    /\ mpc' = "running"
    /\ warmupIterations' = config.warmupIterations
    /\ iterations' = config.iterations
    /\ pc' = "warmup" /\ i' = 0 /\ awaiting' = FALSE /\ start' = 0
    /\ results' = <<>> /\ returned' = <<>>
    /\ invoked' = <<>> /\ outcomes' = <<>> /\ warmupFailed' = 0
    /\ hookLog' = Append(hookLog, HookEvent("case", suites[si].cases[ci]))
    /\ UNCHANGED <<ctx, now>>
    /\ UNCHANGED <<mainConfig, mainIndex, thrown, opFailed, mainLog, summaryTimes>>
    /\ UNCHANGED <<samplerVars, wlVars, loopVars, metricsVars, storeVars>>

\* The steps of runBenchmarkCase inside the run.  Every operation takes 1 ms,
\* resolves with no rows or rejects with an Error whose message is "boom" or "".
MainWarmupInvoke == mpc = "running" /\ WarmupInvoke
MainWarmupResolve == mpc = "running" /\ WarmupResolve /\ now' = now + 1
MainWarmupReject == mpc = "running" /\ WarmupReject /\ now' = now + 1
MainWarmupExit == mpc = "running" /\ WarmupExit
MainTimedInvoke == mpc = "running" /\ TimedInvoke
MainTimedResolve ==
    /\ mpc = "running"
    /\ TimedResolve
    /\ now' = now + 1
    /\ results'[Len(results')].rowsReturned = 0
MainTimedReject ==
    /\ mpc = "running"
    /\ TimedReject
    /\ now' = now + 1
    /\ results'[Len(results')].error \in {Str("boom"), Str("")}
MainCaseReturn == mpc = "running" /\ CaseReturn

\* A plausible slip: only the records of successful iterations are persisted.
MainRowsWithoutFailures ==
    SelectSeq([k \in 1..Len(returned) |->
                  [runId |-> runId, suite |-> suites[si].name,
                   benchmark |-> suites[si].cases[ci],
                   database |-> config.databases[di], scale |-> config.scales[ki],
                   iteration |-> returned[k].iteration,
                   queryTimeMs |-> returned[k].queryTimeMs,
                   rowsReturned |-> returned[k].rowsReturned,
                   error |-> returned[k].error]],
              LAMBDA r : ~r.error.defined)
\* The records runBenchmarkCase returned, with the fields it copies from opts.
MainRows ==
    [k \in 1..Len(returned) |->
        [runId |-> runId, suite |-> suites[si].name,
         benchmark |-> suites[si].cases[ci],
         database |-> config.databases[di], scale |-> config.scales[ki],
         iteration |-> returned[k].iteration,
         queryTimeMs |-> returned[k].queryTimeMs,
         rowsReturned |-> returned[k].rowsReturned,
         error |-> returned[k].error]]

\* An operation of the case that returned was rejected, in warmup or timed.
CaseHadFailure ==
    \/ warmupFailed > 0
    \/ \E k \in 1..Len(returned) : returned[k].error.defined

\* const times = results.filter((r) => !r.error).map((r) => r.queryTimeMs)
RECURSIVE SummaryTimes(_)
SummaryTimes(rows) ==
    IF rows = <<>> THEN <<>>
    ELSE (IF ~Truthy(Head(rows).error) THEN <<Head(rows).queryTimeMs>> ELSE <<>>)
             \o SummaryTimes(Tail(rows))

\* insertResults(dbPath, results); the summary is printed; next case.
MainInsertResults ==
    /\ mpc = "running" /\ pc = "done"
    /\ insertResults(MainRows, 0)
    /\ summaryTimes' = SummaryTimes(MainRows)
    /\ hookLog' = Append(hookLog, HookEvent("persist", suites[si].cases[ci]))
    /\ opFailed' = (opFailed \/ CaseHadFailure)
    /\ ci' = ci + 1
    /\ mpc' = "cases"
    /\ UNCHANGED <<mainConfig, si, di, ki, thrown, mainLog>>
    /\ UNCHANGED <<samplerRest, caseVars, wlVars, loopVars, metricsVars>>

\* insertResults throws: the store rejected a row.
MainInsertResultsThrows ==
    /\ mpc = "running" /\ pc = "done"
    /\ \E bad \in 1..Len(MainRows) : insertResults(MainRows, bad)
    /\ opFailed' = (opFailed \/ CaseHadFailure)
    /\ Throw("store")
    /\ UNCHANGED <<mainConfig, mainIndex>>
    /\ UNCHANGED <<samplerRest, caseVars, wlVars, loopVars, metricsVars>>
    /\ UNCHANGED <<hookLog, summaryTimes>>

\* for (const benchCase of suite.cases): no case is left, and the suite has no
\* teardown hook.
MainCasesDone ==
    /\ mpc = "cases" /\ ci > Len(suites[si].cases)
    /\ IF suites[si].teardown
       THEN mpc' = "teardown" /\ UNCHANGED ki
       ELSE mpc' = "loop" /\ ki' = ki + 1
    /\ UNCHANGED <<mainConfig, si, di, ci, thrown, opFailed, mainLog>>
    /\ UNCHANGED <<samplerVars, caseVars, wlVars, loopVars, metricsVars, storeVars>>
    /\ UNCHANGED <<hookLog, summaryTimes>>

\* if (suite.teardown) await suite.teardown(ctx)
MainTeardown ==
    /\ mpc = "teardown"
    /\ mpc' = "loop"
    /\ ki' = ki + 1
    /\ hookLog' = Append(hookLog, HookEvent("teardown", ""))
    /\ UNCHANGED <<mainConfig, si, di, ci, thrown, opFailed, mainLog, summaryTimes>>
    /\ UNCHANGED <<samplerVars, caseVars, wlVars, loopVars, metricsVars, storeVars>>

\* suite.teardown(ctx) rejects: the await throws inside the try block.
MainTeardownThrows ==
    /\ mpc = "teardown"
    /\ Throw("teardown")
    /\ hookLog' = Append(hookLog, HookEvent("teardown", ""))
    /\ UNCHANGED <<mainConfig, mainIndex, opFailed, summaryTimes>>
    /\ UNCHANGED <<samplerVars, caseVars, wlVars, loopVars, metricsVars, storeVars>>

\* A plausible slip: finally does not stop the collector.
MainStopMissing ==
    /\ mpc = "finally"
    /\ mpc' = "finishRun"
    /\ UNCHANGED <<samplerVars, mainLog>>
    /\ UNCHANGED <<mainConfig, mainIndex, thrown, opFailed>>
    /\ UNCHANGED <<caseVars, wlVars, loopVars, metricsVars, storeVars>>
    /\ UNCHANGED <<hookLog, summaryTimes>>
\* finally { statsCollector?.stop();
MainStop ==
    /\ mpc = "finally"
    /\ IF collectDockerStats
       THEN /\ IF timer # 0
               THEN armed' = armed \ {timer} /\ timer' = 0
               ELSE UNCHANGED <<armed, timer>>
            /\ calls' = Append(calls, "stop")
            /\ mainLog' = Append(mainLog, "stop")
            /\ UNCHANGED <<nextTimerId, snapshots, pollCount, lastPoll>>
       ELSE UNCHANGED <<samplerVars, mainLog>>
    /\ mpc' = "finishRun"
    /\ UNCHANGED <<mainConfig, mainIndex, thrown, opFailed>>
    /\ UNCHANGED <<caseVars, wlVars, loopVars, metricsVars, storeVars>>
    /\ UNCHANGED <<hookLog, summaryTimes>>

\* finishRun(dbPath, runId);
MainFinishRun ==
    /\ mpc = "finishRun"
    /\ finishRun(runId)
    /\ mpc' = "closeDb"
    /\ mainLog' = Append(mainLog, "finishRun")
    /\ UNCHANGED <<mainConfig, mainIndex, thrown, opFailed>>
    /\ UNCHANGED <<samplerRest, caseVars, wlVars, loopVars, metricsVars>>
    /\ UNCHANGED <<hookLog, summaryTimes>>

\* finishRun throws (the store cannot be written): the rest of finally is
\* skipped and this error is the one main rejects with.
MainFinishRunThrows ==
    /\ mpc = "finishRun"
    /\ dbOpen' = TRUE
    /\ clock' = clock + 1
    /\ lastOp' = StoreOp("finishRun", FALSE, runId, <<>>)
    /\ thrown' = "store"
    /\ mpc' = "rejected"
    /\ mainLog' = Append(mainLog, "finishRun")
    /\ UNCHANGED <<runs, benchmark_results>>
    /\ UNCHANGED <<mainConfig, mainIndex, opFailed>>
    /\ UNCHANGED <<samplerVars, caseVars, wlVars, loopVars, metricsVars>>
    /\ UNCHANGED <<hookLog, summaryTimes>>

\* closeDb();
MainCloseDb ==
    /\ mpc = "closeDb"
    /\ closeDb
    /\ mpc' = "closeAll"
    /\ UNCHANGED <<mainConfig, mainIndex, thrown, opFailed, mainLog>>
    /\ UNCHANGED <<samplerVars, caseVars, wlVars, loopVars, metricsVars>>
    /\ UNCHANGED <<hookLog, summaryTimes>>

\* await closeAll(); } then main resolves, or the pending exception goes on to
\* main().catch: process.exit(1).
MainCloseAll ==
    /\ mpc = "closeAll"
    /\ mpc' = IF thrown = "none" THEN "resolved" ELSE "rejected"
    /\ UNCHANGED <<mainConfig, mainIndex, thrown, opFailed, mainLog>>
    /\ UNCHANGED <<samplerVars, caseVars, wlVars, loopVars, metricsVars, storeVars>>
    /\ UNCHANGED <<hookLog, summaryTimes>>

\* An armed interval fires while main runs (process.exit ends the timers).
MainTick ==
    /\ mpc # "rejected"
    /\ pollCount < MaxPolls
    /\ \E t \in armed : SamplerTick(t)
    /\ lastPoll' \in MainPollOutcomes

MainNext ==
    \/ MainInsertRun
    \/ MainDiscover
    \/ MainNoSuitesFinishRun
    \/ MainNoSuitesCloseDb
    \/ MainStartSampler
    \/ MainEnterTry
    \/ MainSuitesDone
    \/ MainNextSuite
    \/ MainSkipDatabase
    \/ MainNextDatabase
    \/ MainBuildContext
    \/ MainConnectThrows
    \/ MainSetup
    \/ MainSetupThrows
    \/ MainCallCase
    \/ MainWarmupInvoke
    \/ MainWarmupResolve
    \/ MainWarmupReject
    \/ MainWarmupExit
    \/ MainTimedInvoke
    \/ MainTimedResolve
    \/ MainTimedReject
    \/ MainCaseReturn
    \/ MainInsertResults
    \/ MainInsertResultsThrows
    \/ MainCasesDone
    \/ MainTeardown
    \/ MainTeardownThrows
    \/ MainStop
    \/ MainFinishRun
    \/ MainFinishRunThrows
    \/ MainCloseDb
    \/ MainCloseAll
    \/ MainTick

\* ------------------------------------- a mixed-workload case inside the run

\* The case operations of the mixed-workload suite call the workload driver:
\*   fn: async (ctx) => { const rows = await mixedWorkload(ctx, ...);
\*                        return { rowsReturned: rows }; }
\* Here main has called runBenchmarkCase for the suite's case on postgis, in a
\* run started with one timed iteration and no warmup, and goes on to persist
\* the records and to call the suite's teardown hook.

MixedCaseCalled ==
    /\ CaseInit /\ ctx = "context" /\ warmupIterations = 0 /\ iterations = 1
    /\ WorkloadInit /\ driver = "mixedWorkload" /\ database = "postgis"
    /\ totalOps >= 1
    /\ dbOpen = TRUE /\ runs = [r \in {runId} |-> RunRow(1)]
    /\ benchmark_results = <<>> /\ clock = 1
    /\ lastOp = StoreOp("insertRun", TRUE, runId, <<>>)
    /\ mpc = "running" /\ collectDockerStats = FALSE /\ suites = DiscoveredSuites
    /\ si = 1 /\ di = 1 /\ ki = 1 /\ ci = 1
    /\ thrown = "none" /\ opFailed = FALSE /\ mainLog = <<"try">>
    /\ hookLog = <<HookEvent("case", suites[si].cases[ci])>>
    /\ summaryTimes = <<>>

\* benchCase.fn(ctx) runs up to its await: mixedWorkload dispatches the slots.
MixedDriverCall ==
    /\ mpc = "running" /\ pc = "timed" /\ awaiting
    /\ MixedWorkloadCall

\* A query of the driver settles, whether or not the driver has returned.
MixedOpSucceed ==
    /\ wpc # "idle"
    /\ \E k \in 1..totalOps : OpSucceed(k)

MixedOpFail ==
    /\ wpc # "idle"
    /\ \E k \in 1..totalOps : OpFail(k)

\* mixedWorkload resolved: the operation resolves with rowsReturned: rows, and
\* runBenchmarkCase pushes the record.
MixedTimedResolve ==
    /\ mpc = "running" /\ wpc = "returned"
    /\ pc = "timed" /\ awaiting
    /\ \E d \in Durations :
          /\ now' = now + d
          /\ results' = Append(results, MakeRecord(i, now' - start, wlReturned, Undefined))
    /\ awaiting' = FALSE
    /\ i' = i + 1
    /\ outcomes' = Append(outcomes, "ok")
    /\ UNCHANGED otherThanCase
    /\ UNCHANGED <<ctx, warmupIterations, iterations, pc, start, returned, invoked,
                   warmupFailed>>

\* mixedWorkload rejected (Promise.all rejected): the operation rejects with
\* the query's error, and runBenchmarkCase pushes the error record.
MixedTimedReject ==
    /\ mpc = "running" /\ wpc = "failed"
    /\ TimedReject
    /\ results'[Len(results')].error = Str("boom")

MixedCaseNext ==
    \/ MainWarmupExit
    \/ MainTimedInvoke
    \/ MixedDriverCall
    \/ MixedOpSucceed
    \/ MixedOpFail
    \/ MixedTimedResolve
    \/ MixedTimedReject
    \/ MainCaseReturn
    \/ MainInsertResults
    \/ MainCasesDone
    \/ MainTeardown

\* ----------------------------------------------------------- specifications

CaseIdle ==
    /\ ctx = "context"
    /\ warmupIterations = 0 /\ iterations = 0 /\ pc = "done" /\ i = 0
    /\ awaiting = FALSE /\ now = 0 /\ start = 0 /\ results = <<>>
    /\ returned = <<>> /\ invoked = <<>> /\ outcomes = <<>> /\ warmupFailed = 0

WorkloadUnused ==
    /\ driver = "mixedWorkload" /\ database = "postgis" /\ totalOps = 0
    /\ writeRatio = 0 /\ concurrency = 1 /\ WorkloadIdle

InitCase ==
    CaseInit /\ WorkloadUnused /\ SamplerInit /\ LoopIdle /\ MetricsIdle /\ StoreIdle /\ MainIdle

SpecCase == InitCase /\ [][CaseNext]_vars

InitWorkload ==
    WorkloadInit /\ CaseIdle /\ SamplerInit /\ LoopIdle /\ MetricsIdle /\ StoreIdle /\ MainIdle

SpecWorkload == InitWorkload /\ [][WorkloadNext]_vars

InitSampler ==
    SamplerInit /\ CaseIdle /\ WorkloadUnused /\ LoopIdle /\ MetricsIdle /\ StoreIdle /\ MainIdle

InitEventLoop ==
    /\ CaseInit /\ ctx = "context" /\ warmupIterations <= 1 /\ iterations <= 1
    /\ WorkloadUnused /\ SamplerInit /\ LoopIdle /\ MetricsIdle /\ StoreIdle /\ MainIdle

SpecEventLoop == InitEventLoop /\ [][EventLoopNext]_vars

InitStore ==
    StoreIdle /\ CaseIdle /\ WorkloadUnused /\ SamplerInit /\ LoopIdle /\ MetricsIdle /\ MainIdle

SpecStore == InitStore /\ [][StoreNext]_vars

InitMain ==
    MainInit /\ CaseIdle /\ WorkloadUnused /\ SamplerInit /\ LoopIdle /\ MetricsIdle /\ StoreIdle

SpecMain == InitMain /\ [][MainNext]_vars

SpecSampler == InitSampler /\ [][SamplerNext]_vars

InitMixedCase == MixedCaseCalled /\ SamplerInit /\ LoopIdle /\ MetricsIdle

SpecMixedCase == InitMixedCase /\ [][MixedCaseNext]_vars

InitMetrics ==
    /\ MetricsInit /\ CaseIdle /\ WorkloadUnused /\ SamplerInit /\ LoopIdle
    /\ StoreIdle /\ MainIdle

SpecMetrics == InitMetrics /\ [][MetricsNext]_vars

\* ------------------------------------------------- claims: case executor

\* C1: runBenchmarkCase returns exactly opts.iterations records whatever mix
\* of timed invocations succeeded or failed, and warmup invocations never
\* produce a record: no record exists while the warmup loop runs, and there
\* is one record per settled timed invocation.
C1_ReturnsExactlyTimedIterations ==
    /\ pc = "done" => Len(returned) = iterations
    /\ pc = "warmup" => results = <<>>
    /\ Len(results) = Len(outcomes)

C1_Witness ==
    /\ pc = "done"
    /\ warmupIterations = MaxWarmup
    /\ warmupFailed > 0
    /\ Len(returned) = MaxIter
    /\ \E j, k \in 1..Len(outcomes) : outcomes[j] = "ok" /\ outcomes[k] = "fail"

\* C2: every timed iteration whose operation failed, whatever it failed
\* with, yields a record with a non-empty error and rowsReturned = 0.
C2_FailedIterationHasNonEmptyError ==
    \A k \in 1..Len(results) :
        outcomes[k] = "fail" =>
            /\ results[k].error.defined
            /\ results[k].error.value # ""
            /\ results[k].rowsReturned = 0

\* C3: timed iterations run strictly one after another: while the operation
\* of iteration N+1 is pending, the outcomes of iterations 1..N are recorded
\* and no other invocation has been made; the records carry the iteration
\* indices 1, 2, ... in execution order.
TimedInvocations == SelectSeq(invoked, LAMBDA e : e[1] = "timed")

C3_SequentialInOrder ==
    /\ \A k \in 1..Len(TimedInvocations) : TimedInvocations[k] = <<"timed", k - 1>>
    /\ Len(TimedInvocations) = Len(results) + (IF awaiting /\ pc = "timed" THEN 1 ELSE 0)
    /\ \A k \in 1..Len(results) : results[k].iteration = k
    /\ pc = "done" => \A k \in 1..iterations : returned[k].iteration = k

C3_Witness ==
    /\ pc = "timed" /\ awaiting
    /\ i = MaxIter - 1 /\ i > 0
    /\ Len(results) = i
    /\ outcomes[i] = "fail"

\* ------------------------------------------------ claims: workload driver

Range(q) == {q[k] : k \in 1..Len(q)}

\* C4: in one driver invocation at most `concurrency` slots are in flight,
\* slots are admitted in queue order, and the slots are refilled one by one:
\* in every state, hence right after any completion (success or failure),
\* all `concurrency` slots are taken as long as a slot is still queued.
C4_BoundedSlotBySlotAdmission ==
    /\ Cardinality(active) <= concurrency
    /\ queue # <<>> => Cardinality(active) = concurrency
    /\ admitted = [k \in 1..Len(admitted) |-> k]
    /\ queue = [k \in 1..Len(queue) |-> Len(admitted) + k]

C4_Witness ==
    /\ concurrency = MaxConc /\ concurrency > 1
    /\ completed = <<2>> /\ failedOps = {2}
    /\ admitted = [k \in 1..(concurrency + 1) |-> k]
    /\ Cardinality(active) = concurrency

\* C5: when a dispatched operation fails, the driver does not fail the
\* invocation: it keeps waiting for the sibling operations and, once all
\* have settled, returns the sum over the operations that succeeded.
C5_PartialFailureTolerated ==
    failedOps # {} =>
        /\ wpc \in {"awaiting", "returned"}
        /\ (active = {} /\ queue = <<>>) =>
               wpc = "returned" /\ wlReturned = SumOver(opRows, succeeded)

\* C6: the driver is a completion barrier: when it has returned, normally
\* or by failing, no operation of it is in flight or queued.
C6_CompletionBarrier ==
    wpc \in {"returned", "failed"} => active = {} /\ queue = <<>>

\* C7: the accumulator always equals the sum of the row counts of the
\* operations resolved so far, whatever the order of completions; a driver
\* that returns (all operations succeeded) returns the sum over all of them;
\* with concurrency 1 the operations run one at a time, in queue order.
C7_TotalIsSumOfRowCounts ==
    /\ totalRows = SumOver(opRows, succeeded)
    /\ wpc = "returned" =>
           succeeded = 1..totalOps /\ wlReturned = SumOver(opRows, 1..totalOps)
    /\ concurrency = 1 =>
           Cardinality(active) <= 1 /\ completed = [k \in 1..Len(completed) |-> k]

C7_Witness ==
    /\ wpc = "returned"
    /\ totalOps = MaxOps /\ concurrency = MaxConc
    /\ completed[1] # 1
    /\ wlReturned >= 2

\* C8: mixedWorkload decides the kind of all totalOps slots before it
\* dispatches any of them, each by one draw in [0, 1) compared with
\* writeRatio: ratio 0 gives only reads, ratio 1 only writes; every slot is
\* handed to the limiter exactly once.
C8_SlotKindsByRatio ==
    (driver = "mixedWorkload" /\ wpc # "idle") =>
        /\ Len(ops) = totalOps
        /\ writeRatio = 0 => \A k \in 1..totalOps : ops[k] = "read"
        /\ writeRatio = RatioScale => \A k \in 1..totalOps : ops[k] = "write"
        /\ Len(admitted) + Len(queue) = totalOps
        /\ Range(admitted) \cup Range(queue) = 1..totalOps

C8_Witness ==
    /\ driver = "mixedWorkload" /\ wpc = "returned"
    /\ writeRatio = 0 /\ totalOps = MaxOps
    /\ \A k \in 1..totalOps : ops[k] = "read"

\* ----------------------------------------------- claims: resource sampler

StartCalls == {k \in 1..Len(calls) : calls[k] = "start"}

SnapshotsOf(c) == Cardinality({k \in 1..Len(snapshots) : snapshots[k].container = c})

\* C9: stop() on a collector that was never started changes nothing and
\* writes no snapshot; on a collector started once, with stop() called right
\* after start(), exactly one snapshot exists per container whose query in
\* the immediate poll succeeded, none for the others, and no poll follows.
C9_StopBeforeStartAndImmediateStop ==
    /\ StartCalls = {} =>
           /\ timer = 0 /\ armed = {} /\ nextTimerId = 1
           /\ snapshots = <<>> /\ pollCount = 0
    /\ \A p \in 1..(Len(calls) - 1) :
           (StartCalls = {p} /\ calls[p + 1] = "stop") =>
               /\ pollCount = 1
               /\ \A c \in ContainerSet :
                      SnapshotsOf(c) = IF lastPoll[c] = "ok" THEN 1 ELSE 0

C9_Witness ==
    /\ calls = <<"stop", "start", "stop", "stop">>
    /\ lastPoll[Containers[1]] = "ok" /\ lastPoll[Containers[2]] = "unreachable"
    /\ Len(snapshots) = 1

LastCallBefore(k) ==
    LET S == {j \in 1..(k - 1) : calls[j] # "tick"}
    IN IF S = {} THEN "none" ELSE calls[CHOOSE j \in S : \A m \in S : m <= j]

\* C10: start() and stop() are idempotent: at most one interval is armed at
\* any time, none is armed once stop() has returned, and no poll is
\* performed between a stop() and the next start().
C10_StartStopIdempotent ==
    /\ Cardinality(armed) <= 1
    /\ LastCallBefore(Len(calls) + 1) = "stop" => armed = {}
    /\ \A k \in 1..Len(calls) : calls[k] = "tick" => LastCallBefore(k) = "start"

SnapshotsOfPoll(c, n) ==
    Cardinality({k \in 1..Len(snapshots) :
                    snapshots[k].container = c /\ snapshots[k].poll = n})

PollCalls == {k \in 1..Len(calls) : calls[k] \in {"start", "tick"}}

\* C11: in one poll a container whose query fails is skipped and nothing
\* else: the poll still handles every other container and ends normally
\* (every start() and tick is a completed poll), the armed interval stays
\* armed for later ticks, and a container whose query succeeded (and whose
\* insert the store accepted) gets exactly one snapshot for that poll.
C11_PollSkipsOnlyFailedContainer ==
    /\ Cardinality(PollCalls) = pollCount
    /\ timer # 0 => timer \in armed
    /\ \A c \in ContainerSet :
           /\ pollCount > 0 =>
                  SnapshotsOfPoll(c, pollCount) = IF lastPoll[c] = "ok" THEN 1 ELSE 0
           /\ \A n \in 1..pollCount : SnapshotsOfPoll(c, n) <= 1

C11_Witness ==
    /\ calls = <<"start", "tick", "tick">>
    /\ lastPoll[Containers[1]] = "unreachable" /\ lastPoll[Containers[2]] = "ok"
    /\ SnapshotsOfPoll(Containers[2], 3) = 1
    /\ SnapshotsOfPoll(Containers[1], 3) = 0
    /\ SnapshotsOfPoll(Containers[1], 2) = 0
    /\ timer \in armed

\* ---------------------------------------------------- claims: event loop

\* C12: sampling never blocks benchmark execution: whenever a poll is
\* querying a container, the case executor can still start the next timed
\* operation, and a pending timed operation can still complete and be timed.
C12_PollNeverBlocksExecutor ==
    polling # 0 =>
        /\ (pc = "timed" /\ awaiting) => ENABLED LoopTimedResolve
        /\ (pc = "timed" /\ ~awaiting /\ i < iterations) => ENABLED LoopTimedInvoke

\* --------------------------------------------------------- claims: store

\* C13: insertRun with a runId that already has a row throws and leaves that
\* row and every other record as they were; with a fresh runId it adds exactly
\* one row, with a start timestamp and no finish timestamp.
C13_InsertRunRejectsDuplicate ==
    [][lastOp'.op = "insertRun" =>
          /\ benchmark_results' = benchmark_results
          /\ snapshots' = snapshots
          /\ IF lastOp'.runId \in DOMAIN runs
             THEN ~lastOp'.ok /\ runs' = runs
             ELSE /\ lastOp'.ok
                  /\ DOMAIN runs' = DOMAIN runs \cup {lastOp'.runId}
                  /\ \A r \in DOMAIN runs : runs'[r] = runs[r]
                  /\ runs'[lastOp'.runId].started_at = clock'
                  /\ runs'[lastOp'.runId].started_at # 0
                  /\ runs'[lastOp'.runId].finished_at = 0]_vars

C13_Witness ==
    /\ lastOp = StoreOp("insertRun", FALSE, "run-1", <<>>)
    /\ "run-1" \in DOMAIN runs /\ runs["run-1"].started_at = 1
    /\ Len(benchmark_results) = 1

\* C14: insertResults is all or nothing: when the insert of any row throws,
\* the store is as before the call; when the call returns, the rows of the
\* batch follow the rows that were there, each once, in order.
C14_InsertResultsAtomic ==
    [][lastOp'.op = "insertResults" =>
          /\ runs' = runs
          /\ snapshots' = snapshots
          /\ IF lastOp'.ok
             THEN benchmark_results' = benchmark_results \o lastOp'.rows
             ELSE benchmark_results' = benchmark_results]_vars

C14_Witness ==
    /\ lastOp.op = "insertResults" /\ ~lastOp.ok
    /\ lastOp.rows[1].iteration = 2
    /\ Len(benchmark_results) = 1

\* C15: getStatsForRun leaves out every group without a non-error record:
\* each entry it returns has count >= 1.
C15_StatsOmitEmptyGroups ==
    \A r \in RunIds :
        \A k \in DOMAIN getStatsForRun(r) : getStatsForRun(r)[k].stats.count >= 1

\* The non-error records of a run in a group.
NonErrorRows(run, g) ==
    {k \in 1..Len(benchmark_results) :
        /\ benchmark_results[k].runId = run
        /\ GroupOf(benchmark_results[k]) = g
        /\ ~benchmark_results[k].error.defined}

StoreGroups == {GroupOf(StoreRecord(r, b, 1, Undefined)) : r \in RunIds, b \in Benchmarks}

\* C16: for every group with a non-error record in run R, getStatsForRun(R)
\* has exactly one entry, and the count of an entry is the number of non-error
\* records of R in its group: records with an error and records of other runs
\* are counted nowhere.
C16_StatsCountNonErrorRowsOfRun ==
    \A r \in RunIds :
        LET stats == getStatsForRun(r)
        IN  /\ \A g \in StoreGroups :
                   NonErrorRows(r, g) # {} =>
                       Cardinality({k \in DOMAIN stats : stats[k].group = g}) = 1
            /\ \A k \in DOMAIN stats :
                   stats[k].stats.count = Cardinality(NonErrorRows(r, stats[k].group))

C16_Witness ==
    /\ Len(benchmark_results) = 3
    /\ benchmark_results[1].runId = "run-1" /\ ~benchmark_results[1].error.defined
    /\ benchmark_results[2].runId = "run-1" /\ benchmark_results[2].error.defined
    /\ benchmark_results[3].runId = "run-2" /\ ~benchmark_results[3].error.defined
    /\ \A k \in 1..3 : benchmark_results[k].benchmark = "bbox-small"
    /\ Len(getStatsForRun("run-1")) = 1
    /\ getStatsForRun("run-1")[1].stats.count = 1

\* C17: the store is append-only: a step of any store operation keeps every
\* measurement and every snapshot where it was, unchanged, and keeps every
\* run row except for its finish timestamp.
C17_AppendOnly ==
    [][/\ Len(benchmark_results') >= Len(benchmark_results)
       /\ SubSeq(benchmark_results', 1, Len(benchmark_results)) = benchmark_results
       /\ Len(snapshots') >= Len(snapshots)
       /\ SubSeq(snapshots', 1, Len(snapshots)) = snapshots
       /\ \A r \in DOMAIN runs :
              /\ r \in DOMAIN runs'
              /\ runs'[r].started_at = runs[r].started_at
              /\ runs'[r].config_json = runs[r].config_json]_vars

C17_Witness ==
    /\ lastOp = StoreOp("finishRun", TRUE, "run-1", <<>>)
    /\ "run-1" \in DOMAIN runs
    /\ runs["run-1"].started_at = 1 /\ runs["run-1"].finished_at = 3
    /\ Len(benchmark_results) = 1

\* ----------------------------------------------------------- claims: main

LogPositions(e) == {k \in 1..Len(mainLog) : mainLog[k] = e}

\* C18: main starts the sampler at most once, and before the loop; on every
\* way out of the loop, normal or by an exception, the sampler is stopped and
\* finishRun is attempted, in this order, before main resolves or rejects.
C18_SamplerBracketsLoop ==
    /\ Cardinality(StartCalls) <= 1
    /\ Cardinality(LogPositions("start")) = Cardinality(StartCalls)
    /\ \A a \in LogPositions("start"), b \in LogPositions("try") : a < b
    /\ (collectDockerStats /\ LogPositions("try") # {}) => LogPositions("start") # {}
    /\ (mpc \in {"resolved", "rejected"} /\ LogPositions("leave") # {}) =>
           /\ \E l \in LogPositions("leave"), f \in LogPositions("finishRun") :
                  /\ l < f
                  /\ collectDockerStats => \E st \in LogPositions("stop") : l < st /\ st < f
           /\ timer = 0
           /\ armed = {}

C18_Witness ==
    /\ mpc = "rejected" /\ thrown = "setup" /\ collectDockerStats
    /\ mainLog = <<"start", "try", "leave", "stop", "finishRun">>
    /\ Len(benchmark_results) = 4
    /\ pollCount = 2 /\ calls = <<"start", "tick", "stop">> /\ armed = {}

\* C19: a failing teardown hook does not abort the run: main does not reject
\* because of it.
C19_TeardownFailureNotFatal ==
    thrown = "teardown" => mpc \notin {"finally", "finishRun", "closeDb", "closeAll", "rejected"}

\* C20: a failing case operation never aborts the run: when an operation
\* failed and main rejects, the cause is a setup, connection or store failure.
C20_OperationFailureNeverAborts ==
    (opFailed /\ mpc = "rejected") => thrown \in {"setup", "connect", "store"}

\* --------------------------------------- claims: case executor, continued

\* C21: called with a null ctx, runBenchmarkCase raises an error: it does not
\* return measurement records.
C21_NullContextFailsFast ==
    ctx = "null" => ~(pc = "done" /\ returned # <<>>)

\* The invocations that have settled, by the position of the loops.
SettledInvocations ==
    IF pc = "warmup" THEN i
    ELSE IF pc = "timed" THEN warmupIterations + i
    ELSE warmupIterations + iterations

\* C25: the operation is invoked warmupIterations + iterations times, one at
\* a time, every warmup invocation before the first timed one; a rejected
\* warmup invocation leaves no record and takes no invocation away.
C25_WarmupThenTimedInvocations ==
    /\ Len(invoked) = SettledInvocations + (IF awaiting THEN 1 ELSE 0)
    /\ \A k \in 1..Len(invoked) :
           invoked[k] = IF k <= warmupIterations
                        THEN <<"warmup", k - 1>>
                        ELSE <<"timed", k - warmupIterations - 1>>
    /\ pc = "done" =>
           Len(invoked) = warmupIterations + iterations /\ Len(returned) = iterations
    /\ pc = "warmup" => results = <<>>
    /\ Len(results) = Len(outcomes)
    /\ Len(results) <= Len(TimedInvocations)
    /\ warmupFailed <= warmupIterations

C25_Witness ==
    /\ pc = "done" /\ ctx = "context"
    /\ warmupIterations = MaxWarmup /\ warmupFailed = MaxWarmup
    /\ iterations = MaxIter /\ Len(invoked) = MaxWarmup + MaxIter
    /\ Len(returned) = MaxIter
    /\ \A k \in 1..MaxIter : ~returned[k].error.defined


\* ---------------------------------------------- claims: statistics helpers

\* C22: for every non-empty array percentile(values, 0) is the minimum and
\* percentile(values, 100) is the maximum of the array, and the call leaves
\* the caller's array as it was (same elements, same order).
C22_PercentileEndsAndInputUntouched ==
    /\ sampleValues = given
    /\ (mcall = <<"percentile", 0>> /\ given # <<>>)
          => percentileOut = 100 * min(given)
    /\ (mcall = <<"percentile", 100>> /\ given # <<>>)
          => percentileOut = 100 * max(given)

C22_Witness ==
    /\ mcall = <<"percentile", 100>>
    /\ given = <<2, 0, 1>>
    /\ sampleValues = <<2, 0, 1>>
    /\ percentileOut = 200

\* C23: one computeStats call sorts at most once: p50, p95 and p99 are read
\* from a single sorted copy. The code sorts once per percentile, three times
\* for any array of two or more values.
C23_ComputeStatsSortsOnce == mcall = <<"computeStats">> => sortCalls <= 1


\* ------------------------------------------------ claims: main, continued

RECURSIVE Flatten(_)
Flatten(ss) == IF ss = <<>> THEN <<>> ELSE Head(ss) \o Flatten(Tail(ss))

IsPrefix(a, b) == Len(a) <= Len(b) /\ SubSeq(b, 1, Len(a)) = a

ScheduleEvent(ev, s, d, k, benchmark) ==
    [ev |-> ev, suite |-> suites[s].name, database |-> config.databases[d],
     scale |-> config.scales[k], benchmark |-> benchmark]

\* What one {suite, database, scale} combination is to run, in order.
ComboSchedule(s, d, k) ==
    (IF suites[s].setup THEN <<ScheduleEvent("setup", s, d, k, "")>> ELSE <<>>)
    \o Flatten([c \in 1..Len(suites[s].cases) |->
                   <<ScheduleEvent("case", s, d, k, suites[s].cases[c]),
                     ScheduleEvent("persist", s, d, k, suites[s].cases[c])>>])
    \o (IF suites[s].teardown THEN <<ScheduleEvent("teardown", s, d, k, "")>> ELSE <<>>)

\* What a whole run is to do: the combinations the suite supports, in the
\* order of the loops.
Schedule ==
    Flatten([s \in 1..Len(suites) |->
        Flatten([d \in 1..Len(config.databases) |->
            IF config.databases[d] \in suites[s].databases
            THEN Flatten([k \in 1..Len(config.scales) |-> ComboSchedule(s, d, k)])
            ELSE <<>>])])

\* C24: for every {suite, database, scale} combination that is executed, the
\* setup hook (when the suite has one) runs once before the first case is
\* called, every case is called and persisted in order, and the teardown hook
\* (when the suite has one) runs once after the last case's results are
\* persisted; operations are invoked only while a case of the current
\* combination is running; combinations the suite does not support run no
\* setup, no case and no teardown.  So what has run is always a prefix of the
\* schedule, and the whole schedule when main completes.
C24_HooksBracketCases ==
    /\ IsPrefix(hookLog, Schedule)
    /\ mpc = "resolved" => hookLog = Schedule
    /\ (awaiting \/ pc # "done") => mpc = "running"
    /\ mpc = "running" =>
           /\ hookLog # <<>>
           /\ hookLog[Len(hookLog)] = HookEvent("case", suites[si].cases[ci])
    /\ mpc = "teardown" =>
           /\ hookLog # <<>>
           /\ hookLog[Len(hookLog)] =
                  HookEvent("persist", suites[si].cases[Len(suites[si].cases)])

C24_Witness ==
    /\ mpc = "resolved" /\ suites # <<>>
    /\ Len(hookLog) = 10
    /\ hookLog[1].ev = "case" /\ hookLog[3].ev = "teardown"
    /\ hookLog[7].ev = "setup" /\ hookLog[7].suite = "custom"
    /\ hookLog[10].ev = "teardown"
    /\ \A k \in 1..10 : hookLog[k].suite = "custom" => hookLog[k].database = "postgis"

\* C27: every setup hook that completed is followed by the teardown of the
\* same combination by the time main has resolved or rejected, also when main
\* aborts inside the combination.
C27_SetupFollowedByTeardown ==
    mpc \in {"resolved", "rejected"} =>
        \A a \in 1..Len(hookLog) :
            hookLog[a].ev = "setup" =>
                \E b \in (a + 1)..Len(hookLog) :
                    /\ hookLog[b].ev = "teardown"
                    /\ hookLog[b].suite = hookLog[a].suite
                    /\ hookLog[b].database = hookLog[a].database
                    /\ hookLog[b].scale = hookLog[a].scale

RunFinished == runId \in DOMAIN runs /\ runs[runId].finished_at # 0
StoreClosedByMain == lastOp.op = "closeDb"

\* C28: once the run's finish timestamp is set or main has closed the store,
\* the sampler is stopped (no handle, no armed interval), no snapshot is
\* written and no poll runs any more, and a closed store stays closed.
C28_NoSnapshotAfterFinish ==
    [][(RunFinished \/ StoreClosedByMain) =>
          /\ timer = 0 /\ armed = {}
          /\ snapshots' = snapshots
          /\ pollCount' = pollCount
          /\ StoreClosedByMain => (~dbOpen /\ ~dbOpen')]_vars

C28_Witness ==
    /\ mpc = "resolved" /\ collectDockerStats
    /\ RunFinished /\ StoreClosedByMain /\ ~dbOpen
    /\ calls = <<"start", "tick", "stop">>
    /\ Len(snapshots) = 4

\* C29: the summary printed for a case and the store's statistics for its
\* group are computed from the same times: a record is left out by the
\* summary's filter (!r.error) exactly when it is left out by the store's
\* (error IS NULL).
C29_SummaryAndStoreFilterAgree ==
    (lastOp.op = "insertResults" /\ lastOp.ok) =>
        summaryTimes = TimesOf(getResultsByRun(runId), GroupOf(lastOp.rows[1]))

RowKey(r) == [suite |-> r.suite, benchmark |-> r.benchmark, database |-> r.database,
              scale |-> r.scale, iteration |-> r.iteration]

\* The keys of the rows the batches of a log hold: iterations 1..iterations
\* of each persisted case, in order.
BatchKeys(log) ==
    Flatten([k \in 1..Len(log) |->
        IF log[k].ev = "persist"
        THEN [n \in 1..config.iterations |->
                 [suite |-> log[k].suite, benchmark |-> log[k].benchmark,
                  database |-> log[k].database, scale |-> log[k].scale,
                  iteration |-> n]]
        ELSE <<>>])

CaseCalls == {k \in 1..Len(hookLog) : hookLog[k].ev = "case"}

\* C30: the store holds, for the run, exactly config.iterations records for
\* every case that was persisted, with the indices 1..iterations once each
\* and batch after batch; while a case runs, every case called before it has
\* its whole batch in the store; when main completes without aborting, these
\* are the records of every executed {suite, case, database, scale} and of no
\* unsupported combination.
C30_StoreHoldsEveryIteration ==
    /\ [k \in 1..Len(benchmark_results) |-> RowKey(benchmark_results[k])]
           = BatchKeys(hookLog)
    /\ \A k \in 1..Len(benchmark_results) : benchmark_results[k].runId = runId
    /\ mpc = "running" =>
           Len(benchmark_results) = config.iterations * (Cardinality(CaseCalls) - 1)
    /\ mpc = "resolved" =>
           [k \in 1..Len(benchmark_results) |-> RowKey(benchmark_results[k])]
               = BatchKeys(Schedule)

C30_Witness ==
    /\ mpc = "resolved" /\ suites # <<>>
    /\ Len(benchmark_results) = 3 * config.iterations
    /\ benchmark_results[1].error.defined
    /\ ~benchmark_results[2].error.defined
    /\ benchmark_results[5].suite = "custom"
    /\ benchmark_results[5].iteration = 1 /\ benchmark_results[6].iteration = 2


\* ------------------------------- claims: a mixed-workload case inside the run

\* C26: when main is at the teardown hook of a combination, no operation that
\* the combination's cases dispatched is in flight or queued, also when an
\* operation of a concurrent iteration failed.
C26_TeardownAfterOperationsSettled ==
    mpc = "teardown" => (active = {} /\ queue = <<>>)

====
